---- MODULE Spec2Model ----
(***************************************************************************)
(* Model of src/selector_engine_patterns.js: the login-flow classifier,    *)
(* the selector resolvers, the multi-step executor and the per-domain      *)
(* result store of analyzeLoginPage.                                       *)
(*                                                                         *)
(* One action is one block of analyzeLoginPage that runs between two       *)
(* awaits on an external collaborator (document driver, proposer).         *)
(***************************************************************************)
EXTENDS Naturals, Sequences, FiniteSets, TLC

VARIABLES
  pc,            \* position of the run inside analyzeLoginPage
  url,           \* page.url() of the live document: a hostname as labels
  doc,           \* live document: selector -> [n: matching elements, vis: first one visible]
  inputs,        \* extractInputsWithContext result (line 308)
  buttons,       \* extractButtonsWithContext result (line 309)
  proposal,      \* what the first queryGemini call produced, as received
  firstResult,   \* the firstResult object, mutated by the override (lines 362-369)
  existing,      \* mapping loaded by loadExistingJson (line 383)
  domain,        \* store key computed at lines 376-382
  fillSel,       \* line 434
  secondResult,  \* line 517
  events,        \* document interactions / collaborator calls performed, in order
  out,           \* value returned by analyzeLoginPage
  store,         \* the JSON file at savePathJson
  runs,          \* number of runs started against the store
  atStart,       \* history: the mapping the store held when the run started
  latest,        \* history: per domain, the record the latest successful run returned
  rq,            \* resolver query  (resolver specification only)
  rs,            \* resolver answer (resolver specification only)
  secondAnswer,  \* what the second queryGemini call produced, as received
  peer           \* a second run of analyzeLoginPage against the same store

vars == <<pc, url, doc, inputs, buttons, proposal, firstResult, existing, domain,
          fillSel, secondResult, events, out, store, runs, atStart, latest, rq, rs,
          secondAnswer, peer>>

-----------------------------------------------------------------------------
(* Bounds of the model *)

MaxLen == 2      \* longest pattern list a proposal carries
MaxCount == 2    \* most elements one selector matches (resolver specification)
MaxRuns == 2     \* sequential runs against one store (store specification)
MaxCands == 2    \* scraped candidates handed to a resolver (resolver specification)

-----------------------------------------------------------------------------
(* Selector / pattern texts *)

ValidSelectors ==
  {"#user", "#pass", "#go", "text=NEXT", "#Continue", "a.verify", "#proceed", "#ext",
   "i", "n", "p", "u", "t"}

\* text that the driver rejects as a selector: locator(...).count()/isVisible() throw
BadSyntax == "input[["
\* a list element that is not a string (the proposer answered [42])
NotAString == "<42>"

Patterns == ValidSelectors \cup {BadSyntax, NotAString}

Null == "<null>"
Threw == "<threw>"

TextOf(p) ==
  CASE p = "#user" -> <<"#", "u", "s", "e", "r">>
    [] p = "#pass" -> <<"#", "p", "a", "s", "s">>
    [] p = "#go" -> <<"#", "g", "o">>
    [] p = "text=NEXT" -> <<"t", "e", "x", "t", "=", "N", "E", "X", "T">>
    [] p = "#Continue" -> <<"#", "C", "o", "n", "t", "i", "n", "u", "e">>
    [] p = "a.verify" -> <<"a", ".", "v", "e", "r", "i", "f", "y">>
    [] p = "#proceed" -> <<"#", "p", "r", "o", "c", "e", "e", "d">>
    [] p = "#ext" -> <<"#", "e", "x", "t">>
    [] p = "input[[" -> <<"i", "n", "p", "u", "t", "[", "[">>
    [] OTHER -> <<>>

UpperCase ==
  <<"A", "B", "C", "D", "E", "F", "G", "H", "I", "J", "K", "L", "M",
    "N", "O", "P", "Q", "R", "S", "T", "U", "V", "W", "X", "Y", "Z">>
LowerCase ==
  <<"a", "b", "c", "d", "e", "f", "g", "h", "i", "j", "k", "l", "m",
    "n", "o", "p", "q", "r", "s", "t", "u", "v", "w", "x", "y", "z">>

\* String.prototype.toLowerCase on one character
LowerChar(c) ==
  IF \E i \in DOMAIN UpperCase : UpperCase[i] = c
    THEN LowerCase[CHOOSE i \in DOMAIN UpperCase : UpperCase[i] = c]
    ELSE c

toLowerCase(s) == [i \in DOMAIN s |-> LowerChar(s[i])]

\* String.prototype.includes: w occurs in s as a contiguous substring
includes(s, w) ==
  \E k \in 0..Len(s) :
    /\ k + Len(w) <= Len(s)
    /\ \A i \in 1..Len(w) : s[k + i] = w[i]

nextWords ==
  << <<"n", "e", "x", "t">>,
     <<"c", "o", "n", "t", "i", "n", "u", "e">>,
     <<"v", "e", "r", "i", "f", "y">>,
     <<"p", "r", "o", "c", "e", "e", "d">> >>

-----------------------------------------------------------------------------
(* JavaScript values of the pattern-list fields of a proposal *)

Absent == [kind |-> "absent", items |-> <<>>]    \* undefined, null or key missing
List(s) == [kind |-> "list", items |-> s]         \* an array
Str(s) == [kind |-> "string", items |-> s]        \* a bare string; items are its characters

\* the proposer answered "input" where a list was asked for
BareString == Str(<<"i", "n", "p", "u", "t">>)

\* truthiness, as used by  x || []
Truthy(v) == v.kind = "list" \/ (v.kind = "string" /\ v.items # <<>>)

\* x || []
OrEmpty(v) == IF Truthy(v) THEN v ELSE List(<<>>)

\* a || b
Or(a, b) == IF Truthy(a) THEN a ELSE b

\* x.length on an array or a string
Length(v) == Len(v.items)

\* the elements a  for (const p of x || [])  loop visits
Items(v) == OrEmpty(v).items

ListsOver(pool, n) == UNION {[1..k -> pool] : k \in 0..n}

-----------------------------------------------------------------------------
(* Document interaction primitives *)

\* page.locator(p) throws on a value that is no selector text
LocatorThrows(p) == p \notin ValidSelectors

\* page.locator(p).count()
Count(d, p) == d[p].n

\* page.locator(p).first().isVisible()
IsVisible(d, p) == d[p].n > 0 /\ d[p].vis

existsSelector(d, selector) ==
  IF selector = "" THEN FALSE
  ELSE IF LocatorThrows(selector) THEN FALSE
  ELSE Count(d, selector) > 0

\* mutant: a visibility check that throws counts as visible
isVisibleSelector_CatchTrue(d, selector) ==
  IF selector = "" THEN FALSE
  ELSE IF LocatorThrows(selector) THEN TRUE
  ELSE IsVisible(d, selector)

isVisibleSelector(d, selector) ==
  IF selector = "" THEN FALSE
  ELSE IF LocatorThrows(selector) THEN FALSE
  ELSE IsVisible(d, selector)

-----------------------------------------------------------------------------
(* Selector resolvers *)

RECURSIVE FirstCounted_NoCatch(_, _)
\* mutant: the loop without its try/catch, a count that throws ends the resolution
FirstCounted_NoCatch(d, seq) ==
  IF seq = <<>> THEN Null
  ELSE IF LocatorThrows(Head(seq)) THEN Threw
  ELSE IF Count(d, Head(seq)) > 0 THEN Head(seq)
  ELSE FirstCounted_NoCatch(d, Tail(seq))

RECURSIVE FirstCounted(_, _)
\* for (const p of seq) { try { if (count(p) > 0) return p } catch {} }  return null
FirstCounted(d, seq) ==
  IF seq = <<>> THEN Null
  ELSE IF LocatorThrows(Head(seq)) THEN FirstCounted(d, Tail(seq))
  ELSE IF Count(d, Head(seq)) > 0 THEN Head(seq)
  ELSE FirstCounted(d, Tail(seq))

pickConcreteSelectorFromPatterns(d, patterns) == FirstCounted(d, Items(patterns))

RECURSIVE FirstSuggested(_, _)
\* the fallback loop over the scraped candidates' suggestedSelectors
FirstSuggested(d, cands) ==
  IF cands = <<>> THEN Null
  ELSE LET r == FirstCounted(d, Head(cands).suggestedSelectors) IN
       IF r # Null THEN r ELSE FirstSuggested(d, Tail(cands))

\* mutant: the scraped candidates are tried before the patterns
pickConcreteFieldSelectorForInputs_FallbackFirst(d, patterns, inps) ==
  LET r == FirstSuggested(d, inps) IN
  IF r # Null THEN r ELSE FirstCounted(d, Items(patterns))

pickConcreteFieldSelectorForInputs(d, patterns, inps) ==
  LET r == FirstCounted(d, Items(patterns)) IN
  IF r # Null THEN r ELSE FirstSuggested(d, inps)

-----------------------------------------------------------------------------
(* Proposals, records and the store *)

Undefined == "<undefined>"

NoStep ==
  [present |-> FALSE, field_type |-> Undefined, field_patterns |-> Absent,
   fieldPatterns |-> Absent, submit_patterns |-> Absent, submitPatterns |-> Absent]

\* the object literal of lines 364-368
SynthStep(usernamePatterns, submitPatterns) ==
  [present |-> TRUE, field_type |-> "username", field_patterns |-> usernamePatterns,
   fieldPatterns |-> Absent, submit_patterns |-> submitPatterns, submitPatterns |-> Absent]

Proposal(t, u, p, s, st) ==
  [kind |-> "object", type |-> t, username_patterns |-> u, password_patterns |-> p,
   submit_patterns |-> s, step_1 |-> st]

\* JSON.parse of the text "null": queryGemini returns null without throwing
NullProposal ==
  [kind |-> "null", type |-> Undefined, username_patterns |-> Absent,
   password_patterns |-> Absent, submit_patterns |-> Absent, step_1 |-> NoStep]

\* queryGemini threw (service error, non-JSON answer)
ProposerFailed == [kind |-> "failed"]
\* no answer yet
NoProposal == [kind |-> "none"]

\* mutant: the fallback object declares simple_login
FallbackFirst_Simple == Proposal("simple_login", List(<<>>), List(<<>>), List(<<>>), NoStep)

\* the fallback object of lines 325-330
FallbackFirst == Proposal("incomplete", List(<<>>), List(<<>>), List(<<>>), NoStep)

Second(p, s) == [kind |-> "object", password_patterns |-> p, submit_patterns |-> s]
NullSecond == [kind |-> "null", password_patterns |-> Absent, submit_patterns |-> Absent]
\* mutant: the catch block leaves secondResult without a value
FallbackSecond_Unassigned == NullSecond
\* the fallback object of line 523
FallbackSecond == Second(List(<<>>), List(<<>>))

NoRecord == [variant |-> "none"]

InvalidUrl == <<"?">>

\* new URL(page.url()).hostname.replace(/^www\./, ""), "unknown" when URL throws
domainOf(u) ==
  IF u = InvalidUrl THEN <<"unknown">>
  ELSE IF Len(u) > 1 /\ Head(u) = "www" THEN Tail(u) ELSE u

AllUrls == {<<"www", "a", "com">>, <<"a", "com">>, <<"b", "org">>, InvalidUrl}
Domains == {domainOf(u) : u \in AllUrls}
EmptyMap == [d \in Domains |-> NoRecord]

\* the file pair: the JSON file (absent, unparsable, or a mapping) and the YAML rendering
NoFile == [kind |-> "absent", map |-> EmptyMap, yaml |-> {}]
CorruptFile == [kind |-> "corrupt", map |-> EmptyMap, yaml |-> {}]

loadExistingJson(file) == IF file.kind = "json" THEN file.map ELSE EmptyMap
saveJson(file, obj) == [file EXCEPT !.kind = "json", !.map = obj]

\* the top-level keys of the tree jsonToYamlLike renders, one per domain with a record
jsonToYamlLike(obj) == {d \in Domains : obj[d] # NoRecord}
writeYaml(file, obj) == [file EXCEPT !.yaml = jsonToYamlLike(obj)]

-----------------------------------------------------------------------------
(* Flow classifier, lines 334-373 *)

usernamePatternsOf(fr) == OrEmpty(fr.username_patterns)
passwordPatternsOf(fr) == OrEmpty(fr.password_patterns)
submitPatternsOf(fr) == OrEmpty(fr.submit_patterns)

\* mutant of Rule A: the length test is off by one
RuleA_OffByOne(usernamePatterns, passwordPatterns) ==
  Length(usernamePatterns) > 1 /\ Length(passwordPatterns) = 0

\* Rule A, lines 342-343
RuleA(usernamePatterns, passwordPatterns) ==
  Length(usernamePatterns) > 0 /\ Length(passwordPatterns) = 0

\* Rule B, lines 346-351
RuleB(d, passwordPatterns) ==
  /\ Length(passwordPatterns) > 0
  /\ ~isVisibleSelector(d, passwordPatterns.items[1])

\* mutant: the word test without toLowerCase
hasNextWord_CaseSensitive(s) ==
  IF s = NotAString THEN Threw
  ELSE IF \E i \in DOMAIN nextWords : includes(TextOf(s), nextWords[i])
    THEN "true" ELSE "false"

\* nextWords.some((w) => s.toLowerCase().includes(w)); s.toLowerCase throws on a non-string
hasNextWord(s) ==
  IF s = NotAString THEN Threw
  ELSE IF \E i \in DOMAIN nextWords : includes(toLowerCase(TextOf(s)), nextWords[i])
    THEN "true" ELSE "false"

RECURSIVE SomeNext(_)
\* Array.prototype.some: stops at the first element for which the callback is true
SomeNext(seq) ==
  IF seq = <<>> THEN "false"
  ELSE LET h == hasNextWord(Head(seq)) IN
       IF h = Threw THEN Threw
       ELSE IF h = "true" THEN "true"
       ELSE SomeNext(Tail(seq))

\* Rule C, lines 354-357; a string has no method some
looksLikeNext(submitPatterns) ==
  IF submitPatterns.kind # "list" THEN Threw ELSE SomeNext(submitPatterns.items)

overrideToMulti(d, fr) ==
  \/ RuleA(usernamePatternsOf(fr), passwordPatternsOf(fr))
  \/ RuleB(d, passwordPatternsOf(fr))
  \/ looksLikeNext(submitPatternsOf(fr)) = "true"

\* mutant: the override replaces a step_1 the proposal already carries
applyOverride_AlwaysSynth(d, fr) ==
  IF overrideToMulti(d, fr)
    THEN [fr EXCEPT !.type = "multi_step_login",
                    !.step_1 = SynthStep(usernamePatternsOf(fr), submitPatternsOf(fr))]
    ELSE fr

\* lines 360-370
applyOverride(d, fr) ==
  IF overrideToMulti(d, fr)
    THEN [fr EXCEPT !.type = "multi_step_login",
                    !.step_1 = IF fr.step_1.present THEN fr.step_1
                               ELSE SynthStep(usernamePatternsOf(fr), submitPatternsOf(fr))]
    ELSE fr

\* line 373
effectiveType(fr) == IF fr.type = Undefined THEN "incomplete" ELSE fr.type

-----------------------------------------------------------------------------
(* Records, lines 387-394, 526-541, 550-557 *)

\* mutant: submit_patterns copied from the password list
simpleRecord_CopyPaste(u, fr) ==
  [url |-> u, variant |-> "simple_login",
   username_patterns |-> OrEmpty(fr.username_patterns),
   password_patterns |-> OrEmpty(fr.password_patterns),
   submit_patterns |-> OrEmpty(fr.password_patterns)]

simpleRecord(u, fr) ==
  [url |-> u, variant |-> "simple_login",
   username_patterns |-> OrEmpty(fr.username_patterns),
   password_patterns |-> OrEmpty(fr.password_patterns),
   submit_patterns |-> OrEmpty(fr.submit_patterns)]

\* mutant: the fallback record is written with empty lists
incompleteRecord_DropsLists(u, fr) ==
  [url |-> u, variant |-> "incomplete", username_patterns |-> List(<<>>),
   password_patterns |-> List(<<>>), submit_patterns |-> List(<<>>)]

incompleteRecord(u, fr) ==
  [url |-> u, variant |-> "incomplete",
   username_patterns |-> OrEmpty(fr.username_patterns),
   password_patterns |-> OrEmpty(fr.password_patterns),
   submit_patterns |-> OrEmpty(fr.submit_patterns)]

\* lines 419-426
step1Fields(fr) == Or(fr.step_1.field_patterns, Or(fr.step_1.fieldPatterns, List(<<>>)))
\* lines 427-431
step1SubmitPatterns(fr) ==
  Or(fr.step_1.submit_patterns, Or(fr.step_1.submitPatterns, List(<<>>)))

step1FieldType(fr) ==
  IF fr.step_1.field_type = Undefined THEN "username" ELSE fr.step_1.field_type

\* mutant: step_2 is read from the first answer instead of the second
multiRecord_Step2FromFirst(u, fr, sr) ==
  [url |-> u, variant |-> "multi_step_login", steps |-> 2,
   step_1 |-> [field_type |-> step1FieldType(fr),
               field_patterns |-> step1Fields(fr),
               submit_patterns |-> step1SubmitPatterns(fr)],
   step_2 |-> [field_type |-> "password",
               field_patterns |-> OrEmpty(fr.password_patterns),
               submit_patterns |-> OrEmpty(fr.submit_patterns)]]

multiRecord(u, fr, sr) ==
  [url |-> u, variant |-> "multi_step_login", steps |-> 2,
   step_1 |-> [field_type |-> step1FieldType(fr),
               field_patterns |-> step1Fields(fr),
               submit_patterns |-> step1SubmitPatterns(fr)],
   step_2 |-> [field_type |-> "password",
               field_patterns |-> OrEmpty(sr.password_patterns),
               submit_patterns |-> OrEmpty(sr.submit_patterns)]]

Ev(op, arg, res) == [op |-> op, arg |-> arg, res |-> res]

-----------------------------------------------------------------------------
(* State before the first run *)

NoDoc == [p \in ValidSelectors |-> [n |-> 0, vis |-> FALSE]]
NoQuery == [patterns |-> Absent, inputs |-> <<>>, doc |-> NoDoc]
NoAnswer == [single |-> Null, field |-> Null, state |-> "none"]

\* the second run before it has started
NoPeer ==
  [pc |-> "idle", url |-> InvalidUrl, domain |-> <<"unknown">>, existing |-> EmptyMap,
   out |-> NoRecord]

Idle(st) ==
  /\ pc = "idle"
  /\ url = InvalidUrl
  /\ doc = NoDoc
  /\ inputs = <<>>
  /\ buttons = <<>>
  /\ proposal = NoProposal
  /\ firstResult = FallbackFirst
  /\ existing = EmptyMap
  /\ domain = <<"unknown">>
  /\ fillSel = Null
  /\ secondResult = FallbackSecond
  /\ events = <<>>
  /\ out = NoRecord
  /\ store = st
  /\ runs = 0
  /\ atStart = EmptyMap
  /\ latest = EmptyMap
  /\ secondAnswer = NoProposal
  /\ peer = NoPeer

-----------------------------------------------------------------------------
(* analyzeLoginPage, one action per block between awaits *)

\* lines 300-317: the page is live at some url, the two extractions succeed
StartRun(U, D, I, B) ==
  /\ pc = "idle"
  /\ \E u \in U, d \in D, i \in I, b \in B :
       /\ url' = u
       /\ doc' = d
       /\ inputs' = i
       /\ buttons' = b
  /\ pc' = "propose1"
  /\ runs' = runs + 1
  /\ events' = <<Ev("extract", "1", "ok")>>
  /\ out' = NoRecord
  /\ fillSel' = Null
  /\ proposal' = NoProposal
  /\ firstResult' = FallbackFirst
  /\ secondResult' = FallbackSecond
  /\ existing' = EmptyMap
  /\ domain' = <<"unknown">>
  /\ atStart' = loadExistingJson(store)
  /\ secondAnswer' = NoProposal
  /\ UNCHANGED <<store, latest, rq, rs, peer>>

\* lines 319-332: queryGemini answers with a value of P, or throws
FirstProposal(P) ==
  /\ pc = "propose1"
  /\ \E v \in P \cup {ProposerFailed} :
       /\ proposal' = v
       /\ firstResult' = IF v = ProposerFailed THEN FallbackFirst ELSE v
  /\ events' = Append(events, Ev("propose", "1", "ok"))
  /\ pc' = "classify"
  /\ UNCHANGED <<url, doc, inputs, buttons, existing, domain, fillSel, secondResult,
                 out, store, runs, atStart, latest, rq, rs, secondAnswer, peer>>

\* mutant: only the record of this run is written, the loaded mapping is dropped
Persist_OnlyThisRun(file, mapping, key, rec) ==
  LET m == [EmptyMap EXCEPT ![key] = rec] IN writeYaml(saveJson(file, m), m)

\* mutant: the save re-reads the file and merges the record into what it holds now
Persist_MergeOnSave(file, mapping, key, rec) ==
  LET m == [loadExistingJson(file) EXCEPT ![key] = rec] IN writeYaml(saveJson(file, m), m)

\* existing[domain] = out; saveJson(...); writeFileSync(yaml); return out
Persist(file, mapping, key, rec) ==
  LET m == [mapping EXCEPT ![key] = rec] IN writeYaml(saveJson(file, m), m)

\* lines 334-431 and 549-562
Classify ==
  /\ pc = "classify"
  /\ IF firstResult.kind = "null" \/ looksLikeNext(submitPatternsOf(firstResult)) = Threw
       THEN \* TypeError at line 335 or inside the callback of line 356
            /\ pc' = "thrown"
            /\ UNCHANGED <<firstResult, existing, domain, out, store, latest, events>>
       ELSE LET fr == applyOverride(doc, firstResult)
                type == effectiveType(fr)
                dom == domainOf(url)
                ex == loadExistingJson(store)
                rec == IF type = "simple_login" THEN simpleRecord(url, fr)
                       ELSE incompleteRecord(url, fr)
            IN /\ firstResult' = fr
               /\ domain' = dom
               /\ existing' = ex
               /\ IF type = "multi_step_login"
                    THEN /\ pc' = "fill"
                         /\ UNCHANGED <<out, store, latest, events>>
                    ELSE /\ store' = Persist(store, ex, dom, rec)
                         /\ out' = rec
                         /\ latest' = [latest EXCEPT ![dom] = rec]
                         /\ events' = Append(events, Ev("save", "json+yaml", "ok"))
                         /\ pc' = "done"
  /\ UNCHANGED <<url, doc, inputs, buttons, proposal, fillSel, secondResult, runs,
                 atStart, rq, rs, secondAnswer, peer>>

\* page.locator(sel).fill("dummy@example.com"); waitForTimeout(ms): both inside one try
FillEvents(sel, ok, ms) ==
  IF ok THEN <<Ev("fill", sel, "ok"), Ev("wait", ms, "ok")>>
  ELSE <<Ev("fill", sel, Threw)>>

\* mutant: the fill without its try/catch, a fill that throws ends the run
Fill_ThrowEscapes ==
  /\ pc = "fill"
  /\ LET sel == pickConcreteFieldSelectorForInputs(doc, step1Fields(firstResult), inputs)
         usernamePatterns == usernamePatternsOf(firstResult)
         trySel == IF Length(usernamePatterns) > 0
                     THEN pickConcreteSelectorFromPatterns(doc, usernamePatterns)
                     ELSE Null
         target == IF sel # Null THEN sel ELSE trySel
     IN /\ fillSel' = sel
        /\ IF target # Null
             THEN \E ok \in BOOLEAN :
                    /\ events' = events \o FillEvents(target, ok,
                                                      IF sel # Null THEN "300" ELSE "200")
                    /\ pc' = IF ok THEN "trigger" ELSE "thrown"
             ELSE /\ events' = events
                  /\ pc' = "trigger"
  /\ UNCHANGED <<url, doc, inputs, buttons, proposal, firstResult, existing, domain,
                 secondResult, out, store, runs, atStart, latest, rq, rs, secondAnswer,
                 peer>>

\* lines 433-461
Fill ==
  /\ pc = "fill"
  /\ LET sel == pickConcreteFieldSelectorForInputs(doc, step1Fields(firstResult), inputs)
         usernamePatterns == usernamePatternsOf(firstResult)
         trySel == IF Length(usernamePatterns) > 0
                     THEN pickConcreteSelectorFromPatterns(doc, usernamePatterns)
                     ELSE Null
     IN /\ fillSel' = sel
        /\ IF sel # Null
             THEN \E ok \in BOOLEAN : events' = events \o FillEvents(sel, ok, "300")
             ELSE IF trySel # Null
               THEN \E ok \in BOOLEAN : events' = events \o FillEvents(trySel, ok, "200")
               ELSE events' = events
  /\ pc' = "trigger"
  /\ UNCHANGED <<url, doc, inputs, buttons, proposal, firstResult, existing, domain,
                 secondResult, out, store, runs, atStart, latest, rq, rs, secondAnswer,
                 peer>>

RECURSIVE FirstExisting(_, _)
\* for (const s of b.suggestedSelectors || []) if (await existsSelector(page, s)) ...
FirstExisting(d, seq) ==
  IF seq = <<>> THEN Null
  ELSE IF existsSelector(d, Head(seq)) THEN Head(seq)
  ELSE FirstExisting(d, Tail(seq))

RECURSIVE FirstButton(_, _)
\* lines 470-478
FirstButton(d, btns) ==
  IF btns = <<>> THEN Null
  ELSE LET r == FirstExisting(d, Head(btns).suggestedSelectors) IN
       IF r # Null THEN r ELSE FirstButton(d, Tail(btns))

\* lines 464-479
resolveClickSel(d, fr, btns) ==
  LET r == pickConcreteSelectorFromPatterns(d, step1SubmitPatterns(fr)) IN
  IF r # Null THEN r ELSE FirstButton(d, btns)

\* press("Enter") on the username field, only when fillSel is set (lines 488, 493)
PressEvents(sel, ok) ==
  IF sel = Null THEN <<>> ELSE <<Ev("press", sel, IF ok THEN "ok" ELSE Threw)>>

\* mutant: Enter is pressed on the field whether or not the click went through
TriggerEvents_AlwaysPress(clickSel, sel, disabled, clickOk, pressOk) ==
  IF disabled = "true"
    THEN <<Ev("isDisabled", clickSel, "true")>> \o PressEvents(sel, pressOk)
    ELSE <<Ev("isDisabled", clickSel, disabled),
           Ev("click", clickSel, IF clickOk THEN "ok" ELSE Threw)>>
         \o PressEvents(sel, pressOk)

\* lines 481-497: what the try block does for one answer of isDisabled, click and press
TriggerEvents(clickSel, sel, disabled, clickOk, pressOk) ==
  IF disabled = "true"
    THEN <<Ev("isDisabled", clickSel, "true")>> \o PressEvents(sel, pressOk)
    ELSE <<Ev("isDisabled", clickSel, disabled)>>
         \o (IF clickOk THEN <<Ev("click", clickSel, "ok")>>
             ELSE <<Ev("click", clickSel, Threw)>> \o PressEvents(sel, pressOk))

Transitioned(evs) ==
  \E i \in DOMAIN evs : evs[i].op \in {"click", "press"} /\ evs[i].res = "ok"

\* lines 463-501; a click or an Enter that went through may navigate to a url of N
Trigger(N) ==
  /\ pc = "trigger"
  /\ LET clickSel == resolveClickSel(doc, firstResult, buttons) IN
     IF clickSel = Null
       THEN UNCHANGED <<events, url>>
       ELSE \E disabled \in {"true", "false", Threw}, clickOk \in BOOLEAN, pressOk \in BOOLEAN :
              LET evs == TriggerEvents(clickSel, fillSel, disabled, clickOk, pressOk) IN
              /\ events' = events \o evs
              /\ IF Transitioned(evs) THEN url' \in N \cup {url} ELSE url' = url
  /\ pc' = "settle"
  /\ UNCHANGED <<doc, inputs, buttons, proposal, firstResult, existing, domain, fillSel,
                 secondResult, out, store, runs, atStart, latest, rq, rs, secondAnswer,
                 peer>>

\* line 503: page.waitForTimeout(waitAfterClickMs), outside every try
Settle ==
  /\ pc = "settle"
  /\ \E ok \in BOOLEAN :
       IF ok THEN /\ events' = Append(events, Ev("wait", "waitAfterClickMs", "ok"))
                  /\ pc' = "reobserve"
       ELSE /\ events' = Append(events, Ev("wait", "waitAfterClickMs", Threw))
            /\ pc' = "thrown"
  /\ UNCHANGED <<url, doc, inputs, buttons, proposal, firstResult, existing, domain,
                 fillSel, secondResult, out, store, runs, atStart, latest, rq, rs,
                 secondAnswer, peer>>

\* lines 505-520: second extraction, second prompt sent
Reobserve ==
  /\ pc = "reobserve"
  /\ events' = events \o <<Ev("extract", "2", "ok"), Ev("propose", "2", "ok")>>
  /\ pc' = "propose2"
  /\ UNCHANGED <<url, doc, inputs, buttons, proposal, firstResult, existing, domain,
                 fillSel, secondResult, out, store, runs, atStart, latest, rq, rs,
                 secondAnswer, peer>>

\* lines 517-546: the second answer (a value of S, or a throw) and the record
SecondProposal(S) ==
  /\ pc = "propose2"
  /\ \E v \in S \cup {ProposerFailed} :
       LET sr == IF v = ProposerFailed THEN FallbackSecond ELSE v
           rec == multiRecord(url, firstResult, sr)
       IN /\ secondAnswer' = v
          /\ secondResult' = sr
          /\ IF sr.kind = "null"
               THEN \* TypeError at line 537
                    /\ pc' = "thrown"
                    /\ UNCHANGED <<out, store, latest, events>>
               ELSE /\ out' = rec
                    /\ store' = Persist(store, existing, domain, rec)
                    /\ latest' = [latest EXCEPT ![domain] = rec]
                    /\ events' = Append(events, Ev("save", "json+yaml", "ok"))
                    /\ pc' = "done"
  /\ UNCHANGED <<url, doc, inputs, buttons, proposal, firstResult, existing, domain,
                 fillSel, runs, atStart, rq, rs, peer>>

\* the caller has the record (or the error); the locals of the run are gone
Return ==
  /\ pc \in {"done", "thrown"}
  /\ runs < MaxRuns
  /\ pc' = "idle"
  /\ url' = InvalidUrl
  /\ doc' = NoDoc
  /\ inputs' = <<>>
  /\ buttons' = <<>>
  /\ proposal' = NoProposal
  /\ firstResult' = FallbackFirst
  /\ existing' = EmptyMap
  /\ domain' = <<"unknown">>
  /\ fillSel' = Null
  /\ secondResult' = FallbackSecond
  /\ events' = <<>>
  /\ out' = NoRecord
  /\ atStart' = EmptyMap
  /\ secondAnswer' = NoProposal
  /\ UNCHANGED <<store, runs, latest, rq, rs, peer>>

-----------------------------------------------------------------------------
(* Input sets *)

Cand(sels) == [suggestedSelectors |-> sels]

\* the document in which exactly the selectors of present match, those of hidden invisibly
MkDoc(present, hidden) ==
  [p \in ValidSelectors |->
     [n |-> IF p \in present THEN 1 ELSE 0, vis |-> p \in present /\ p \notin hidden]]

DocsOver(S, H) == {MkDoc(pr, hd) : pr \in SUBSET S, hd \in SUBSET H}

ListValues(pool) == {Absent} \cup {List(s) : s \in ListsOver(pool, MaxLen)}

Types == {"simple_login", "multi_step_login", "incomplete", "sso_login", Undefined}

\* a step_1 object as the proposer writes it, with either spelling of the keys
GivenStep(ft, f, s) ==
  [present |-> TRUE, field_type |-> ft, field_patterns |-> f, fieldPatterns |-> Absent,
   submit_patterns |-> s, submitPatterns |-> Absent]
CamelStep(ft, f, s) ==
  [present |-> TRUE, field_type |-> ft, field_patterns |-> Absent, fieldPatterns |-> f,
   submit_patterns |-> Absent, submitPatterns |-> s]
\* step_1: {}
EmptyStep == [NoStep EXCEPT !.present = TRUE]

(* Classification: every declared type against pattern lists of each shape *)
Urls1 == {<<"www", "a", "com">>}
Docs1 == DocsOver({"#pass", "#user"}, {"#pass"})
Inputs1 == {<<>>}
Buttons1 == {<<>>}
Steps1 ==
  {NoStep, EmptyStep,
   GivenStep("email", List(<<"#ext">>), List(<<"#go">>)),
   CamelStep(Undefined, List(<<"#user">>), List(<<"#go">>))}
UsernameValues1 == ListValues({"#user"}) \cup {BareString}
PasswordValues1 == ListValues({"#pass", BadSyntax})
SubmitValues1 ==
  ListValues({"#go", "text=NEXT"})
    \cup {List(<<p>>) : p \in {"#Continue", "a.verify", "#proceed", "#ext", NotAString}}
    \cup {List(<<NotAString, "text=NEXT">>), List(<<"text=NEXT", NotAString>>), BareString}
Proposals1 ==
  {NullProposal} \cup
  {Proposal(t, u, p, s, st) :
     t \in Types, u \in UsernameValues1, p \in PasswordValues1, s \in SubmitValues1,
     st \in Steps1}
Seconds1 == {NullSecond, Second(Absent, Absent), Second(List(<<"#pass">>), List(<<"#go">>))}

Init ==
  /\ Idle(NoFile)
  /\ rq = NoQuery
  /\ rs = NoAnswer

Next ==
  \/ StartRun(Urls1, Docs1, Inputs1, Buttons1)
  \/ FirstProposal(Proposals1)
  \/ Classify
  \/ Fill
  \/ Trigger({})
  \/ Settle
  \/ Reobserve
  \/ SecondProposal(Seconds1)

Spec == Init /\ [][Next]_vars

-----------------------------------------------------------------------------
(* Vocabulary of the properties, stated on the proposal as received *)

NonEmptyList(v) == v.kind = "list" /\ v.items # <<>>
EmptyList(v) == v.kind = "list" /\ v.items = <<>>
EmptyOrAbsent(v) == v = Absent \/ EmptyList(v)

\* a list as the record carries it: the list received, empty where none was received
AsReceived(v) == IF v = Absent THEN List(<<>>) ELSE v

\* the pattern texts that contain next, continue, verify or proceed in any letter case
TransitionPatterns == {"text=NEXT", "#Continue", "a.verify", "#proceed"}

HasTransitionPattern(v) == \E i \in DOMAIN v.items : v.items[i] \in TransitionPatterns

\* the selector matches a visible element of the document
MatchesVisible(d, p) == p \in ValidSelectors /\ d[p].n > 0 /\ d[p].vis

Answered == proposal.kind = "object"

ExecutorOps == {"fill", "click", "press", "isDisabled", "wait"}

\* nothing of the step executor has happened: no fill, click, Enter, wait, second pass
NoExecutorEvent ==
  \A i \in DOMAIN events :
    /\ events[i].op \notin ExecutorOps
    /\ events[i].op \in {"extract", "propose"} => events[i].arg = "1"

RuleACase ==
  /\ Answered
  /\ NonEmptyList(proposal.username_patterns)
  /\ EmptyList(proposal.password_patterns)

RuleBCase ==
  /\ Answered
  /\ NonEmptyList(proposal.password_patterns)
  /\ ~MatchesVisible(doc, proposal.password_patterns.items[1])

RuleCCase ==
  /\ Answered
  /\ proposal.submit_patterns.kind = "list"
  /\ HasTransitionPattern(proposal.submit_patterns)

\* C1: a record produced from a proposal with a non-empty username list and an empty
\* password list is the multi_step_login variant, whatever type the proposal declares.
C1_RuleAForcesMultiStep ==
  (pc = "done" /\ RuleACase) => out.variant = "multi_step_login"

C1_Witness ==
  /\ pc = "done"
  /\ RuleACase
  /\ proposal.type = "simple_login"
  /\ ~HasTransitionPattern(proposal.submit_patterns)
  /\ out.variant = "multi_step_login"

\* C2: a record produced from a proposal whose first password pattern matches no visible
\* element (absent, hidden, or the check throws) is the multi_step_login variant.
C2_RuleBForcesMultiStep ==
  (pc = "done" /\ RuleBCase) => out.variant = "multi_step_login"

C2_Witness ==
  /\ pc = "done"
  /\ RuleBCase
  /\ proposal.type = "simple_login"
  /\ proposal.password_patterns.items[1] = "#pass"
  /\ doc["#pass"].n > 0
  /\ proposal.username_patterns = List(<<>>)
  /\ proposal.submit_patterns = List(<<"#go">>)
  /\ out.variant = "multi_step_login"

\* C3: a record produced from a proposal with a submit pattern that contains a transition
\* word, in any letter case and at any position of the list, is the multi_step_login
\* variant, whatever the declared type and the username and password lists.
C3_RuleCForcesMultiStep ==
  (pc = "done" /\ RuleCCase) => out.variant = "multi_step_login"

C3_Witness ==
  /\ pc = "done"
  /\ RuleCCase
  /\ proposal.type = "simple_login"
  /\ proposal.submit_patterns = List(<<"#go", "text=NEXT">>)
  /\ proposal.username_patterns = List(<<>>)
  /\ NonEmptyList(proposal.password_patterns)
  /\ MatchesVisible(doc, proposal.password_patterns.items[1])
  /\ out.variant = "multi_step_login"

NoRuleCase ==
  /\ Answered
  /\ proposal.type = "simple_login"
  /\ \/ /\ NonEmptyList(proposal.password_patterns)
        /\ MatchesVisible(doc, proposal.password_patterns.items[1])
     \/ /\ EmptyOrAbsent(proposal.username_patterns)
        /\ EmptyOrAbsent(proposal.password_patterns)
  /\ ~HasTransitionPattern(proposal.submit_patterns)

\* C4: a simple_login proposal on which no rule fires stays simple_login: the record
\* carries the proposal's three lists and the step executor does nothing.
C4_SimpleUnchanged ==
  NoRuleCase =>
    /\ NoExecutorEvent
    /\ pc \in {"classify", "done", "thrown"}
    /\ pc = "done" =>
         out = [url |-> url, variant |-> "simple_login",
                username_patterns |-> AsReceived(proposal.username_patterns),
                password_patterns |-> AsReceived(proposal.password_patterns),
                submit_patterns |-> AsReceived(proposal.submit_patterns)]

C4_Witness ==
  /\ NoRuleCase
  /\ pc = "done"
  /\ proposal.username_patterns = List(<<"#user">>)
  /\ proposal.password_patterns = List(<<"#pass">>)
  /\ proposal.submit_patterns = List(<<"#go">>)
  /\ out.variant = "simple_login"

\* the step_1 the proposal carries, read under either spelling of its keys
GivenStepOf(st) ==
  [field_type |-> IF st.field_type = Undefined THEN "username" ELSE st.field_type,
   field_patterns |-> IF st.field_patterns # Absent THEN st.field_patterns
                      ELSE AsReceived(st.fieldPatterns),
   submit_patterns |-> IF st.submit_patterns # Absent THEN st.submit_patterns
                       ELSE AsReceived(st.submitPatterns)]

\* C5: when a rule fires, the step_1 of the final multi-step record is synthesized from
\* the proposal's username and submit lists if the proposal has no step_1, and is the
\* proposal's own step_1 otherwise.
C5_Step1SynthesizedOnlyWhenMissing ==
  (pc = "done" /\ (RuleACase \/ RuleBCase \/ RuleCCase)) =>
    /\ out.variant = "multi_step_login"
    /\ out.step_1 =
         IF proposal.step_1.present THEN GivenStepOf(proposal.step_1)
         ELSE [field_type |-> "username",
               field_patterns |-> AsReceived(proposal.username_patterns),
               submit_patterns |-> AsReceived(proposal.submit_patterns)]

C5_Witness ==
  /\ pc = "done"
  /\ RuleBCase
  /\ proposal.type = "simple_login"
  /\ ~proposal.step_1.present
  /\ proposal.username_patterns = List(<<"#user">>)
  /\ proposal.password_patterns = List(<<"#pass">>)
  /\ doc["#pass"].n > 0
  /\ out.variant = "multi_step_login"
  /\ out.step_1.field_patterns = List(<<"#user">>)

\* C8: a failed first proposer call does not end the run: no rule fires, the step
\* executor does nothing, and the record persisted and returned is incomplete with
\* three empty lists.
C8_FirstProposalFailureIsIncomplete ==
  proposal = ProposerFailed =>
    /\ pc \in {"classify", "done"}
    /\ NoExecutorEvent
    /\ pc = "done" =>
         /\ out = [url |-> url, variant |-> "incomplete",
                   username_patterns |-> List(<<>>),
                   password_patterns |-> List(<<>>),
                   submit_patterns |-> List(<<>>)]
         /\ store.kind = "json"
         /\ store.map[domain] = out
         /\ domain \in store.yaml

C8_Witness ==
  /\ proposal = ProposerFailed
  /\ pc = "done"
  /\ out.variant = "incomplete"
  /\ store.map[domain] = out

\* C9: no run ends with an error thrown to the caller because of what the proposer
\* answered or of a document interaction primitive that threw.
C9_NoErrorReachesCaller == pc # "thrown"

-----------------------------------------------------------------------------
(* The two resolvers as functions of a pattern list, candidates and a document *)

CountDocs(S) ==
  {[p \in ValidSelectors |-> [n |-> IF p \in S THEN c[p] ELSE 0, vis |-> TRUE]] :
     c \in [S -> 0..MaxCount]}

ResolverPatterns == ListValues({"#user", "#pass", BadSyntax})
ResolverCands ==
  {Cand(<<BadSyntax>>), Cand(<<"#go">>), Cand(<<BadSyntax, "#go">>), Cand(<<"#pass", "#go">>)}
ResolverInputs == ListsOver(ResolverCands, MaxCands)
ResolverDocs == CountDocs({"#user", "#pass", "#go"})

InitResolve ==
  /\ Idle(NoFile)
  /\ rq \in [patterns : ResolverPatterns, inputs : ResolverInputs, doc : ResolverDocs]
  /\ rs = NoAnswer

runVars == <<pc, url, doc, inputs, buttons, proposal, firstResult, existing, domain,
             fillSel, secondResult, events, out, store, runs, atStart, latest,
             secondAnswer, peer>>

ResolveSingle ==
  /\ rs.state = "none"
  /\ rs' = [rs EXCEPT !.single = pickConcreteSelectorFromPatterns(rq.doc, rq.patterns),
                      !.state = "single"]
  /\ UNCHANGED <<runVars, rq>>

ResolveField ==
  /\ rs.state = "single"
  /\ rs' = [rs EXCEPT
              !.field = pickConcreteFieldSelectorForInputs(rq.doc, rq.patterns, rq.inputs),
              !.state = "both"]
  /\ UNCHANGED <<runVars, rq>>

NextResolve == ResolveSingle \/ ResolveField

SpecResolve == InitResolve /\ [][NextResolve]_vars

\* the selector matches one or more elements of the document
MatchesIn(d, p) == p \in ValidSelectors /\ d[p].n >= 1

\* the first element of seq, in order, that matches; none when no element matches
FirstMatch(d, seq) ==
  IF \E i \in DOMAIN seq : MatchesIn(d, seq[i])
    THEN seq[CHOOSE i \in DOMAIN seq :
               MatchesIn(d, seq[i]) /\ \A j \in 1..(i - 1) : ~MatchesIn(d, seq[j])]
    ELSE Null

RECURSIVE FallbackSelectors(_)
\* the candidates' fallback selectors in candidate order and, within one, selector order
FallbackSelectors(cands) ==
  IF cands = <<>> THEN <<>>
  ELSE Head(cands).suggestedSelectors \o FallbackSelectors(Tail(cands))

\* C6: the resolver returns the first pattern of the list that matches one or more
\* elements, passing over patterns whose count throws; none when no pattern matches
\* or the list is empty or missing; it never throws.
C6_ResolverFirstMatchOrNone ==
  rs.state # "none" =>
    /\ rs.single # Threw
    /\ rs.single = FirstMatch(rq.doc, AsReceived(rq.patterns).items)

C6_Witness ==
  /\ rs.state # "none"
  /\ rq.patterns = List(<<BadSyntax, "#pass">>)
  /\ rq.doc["#pass"].n = 2
  /\ rq.doc["#user"].n = 1
  /\ rs.single = "#pass"

\* C7: the two-list resolver answers with the first matching primary pattern if there
\* is one, otherwise with the first matching fallback selector in candidate order
\* and selector order, and with none only when neither list has a match.
C7_FallbackOnlyAfterPrimary ==
  rs.state = "both" =>
    LET primary == FirstMatch(rq.doc, AsReceived(rq.patterns).items)
        fallback == FirstMatch(rq.doc, FallbackSelectors(rq.inputs))
    IN /\ rs.field = IF primary # Null THEN primary ELSE fallback
       /\ rs.field = Null <=> (primary = Null /\ fallback = Null)

C7_Witness ==
  /\ rs.state = "both"
  /\ rq.patterns = List(<<"#user", BadSyntax>>)
  /\ rq.doc["#user"].n = 0
  /\ rq.inputs = <<Cand(<<BadSyntax>>), Cand(<<BadSyntax, "#go">>)>>
  /\ rs.field = "#go"

-----------------------------------------------------------------------------
(* Sequential runs against one store *)

Urls2 == AllUrls
Docs2 == {MkDoc({"#user", "#pass", "#go"}, {}), MkDoc({"#user", "#go"}, {})}
Inputs2 == {<<Cand(<<"#user">>)>>}
Buttons2 == {<<Cand(<<"#go">>)>>}
Proposals2 ==
  {Proposal("simple_login", List(<<"#user">>), List(<<"#pass">>), List(<<"#go">>), NoStep),
   Proposal(Undefined, Absent, Absent, Absent, NoStep),
   NullProposal}
Seconds2 == {Second(List(<<"#pass">>), List(<<"#go">>))}
Navigations2 == {<<"b", "org">>}

\* a record left in the file by an earlier session
OldRecord(u) ==
  [url |-> u, variant |-> "incomplete", username_patterns |-> List(<<"#ext">>),
   password_patterns |-> List(<<>>), submit_patterns |-> List(<<>>)]

OldMap ==
  [EmptyMap EXCEPT ![<<"a", "com">>] = OldRecord(<<"a", "com">>),
                   ![<<"b", "org">>] = OldRecord(<<"b", "org">>)]

InitStores == {NoFile, CorruptFile, writeYaml(saveJson(NoFile, OldMap), OldMap)}

InitStore ==
  /\ \E st \in InitStores : Idle(st)
  /\ rq = NoQuery
  /\ rs = NoAnswer

NextStore ==
  \/ StartRun(Urls2, Docs2, Inputs2, Buttons2)
  \/ FirstProposal(Proposals2)
  \/ Classify
  \/ Fill
  \/ Trigger(Navigations2)
  \/ Settle
  \/ Reobserve
  \/ SecondProposal(Seconds2)
  \/ Return

SpecStore == InitStore /\ [][NextStore]_vars

\* C10: when a run has returned its record, the store is the mapping it held at the
\* start of that run with the run's domain key set to the returned record; every
\* domain analyzed so far holds the record of its latest run and nothing else changed.
C10_StoreIsLastWriteWins ==
  /\ pc = "done" =>
       /\ store.kind = "json"
       /\ store.map[domain] = out
       /\ \A d \in Domains \ {domain} : store.map[d] = atStart[d]
  /\ pc \in {"idle", "done"} =>
       \A d \in Domains : latest[d] # NoRecord => loadExistingJson(store)[d] = latest[d]

\* the second run for a.com has replaced the record of the first, b.org kept its own
C10_Witness ==
  /\ pc = "done"
  /\ runs = 2
  /\ domain = <<"a", "com">>
  /\ atStart[<<"a", "com">>] \notin {NoRecord, OldRecord(<<"a", "com">>), out}
  /\ atStart[<<"b", "org">>] = OldRecord(<<"b", "org">>)
  /\ store.map[<<"a", "com">>] = out
  /\ store.map[<<"b", "org">>] = OldRecord(<<"b", "org">>)

-----------------------------------------------------------------------------
(* Two runs of analyzeLoginPage against one store, each in its own process *)

\* the multi-step answers the second run receives
PeerFirst == Proposal("multi_step_login", List(<<"#user">>), Absent, List(<<"#go">>), NoStep)
PeerSecond == Second(List(<<"#pass">>), List(<<"#go">>))

\* lines 375-383 of the second run: the domain key, then the store is loaded
PeerLoad(U) ==
  /\ peer.pc = "idle"
  /\ \E u \in U :
       peer' = [peer EXCEPT !.pc = "executing", !.url = u, !.domain = domainOf(u),
                            !.existing = loadExistingJson(store)]
  /\ UNCHANGED <<pc, url, doc, inputs, buttons, proposal, firstResult, existing, domain,
                 fillSel, secondResult, events, out, store, runs, atStart, latest, rq, rs,
                 secondAnswer>>

\* lines 526-546 of the second run, after the waits of its step executor
PeerSave ==
  /\ peer.pc = "executing"
  /\ LET rec == multiRecord(peer.url, applyOverride(NoDoc, PeerFirst), PeerSecond) IN
       /\ store' = Persist(store, peer.existing, peer.domain, rec)
       /\ peer' = [peer EXCEPT !.pc = "done", !.out = rec]
  /\ UNCHANGED <<pc, url, doc, inputs, buttons, proposal, firstResult, existing, domain,
                 fillSel, secondResult, events, out, runs, atStart, latest, rq, rs,
                 secondAnswer>>

UrlsR == {<<"www", "a", "com">>}
PeerUrls == {<<"b", "org">>, <<"a", "com">>}
ProposalsR ==
  {Proposal("simple_login", List(<<"#user">>), List(<<"#pass">>), List(<<"#go">>), NoStep),
   Proposal("simple_login", List(<<"#user">>), Absent, List(<<"#go">>), NoStep)}

InitRace ==
  /\ \E st \in InitStores : Idle(st)
  /\ rq = NoQuery
  /\ rs = NoAnswer

NextRace ==
  \/ StartRun(UrlsR, Docs2, Inputs2, Buttons2)
  \/ FirstProposal(ProposalsR)
  \/ Classify
  \/ Fill
  \/ Trigger({})
  \/ Settle
  \/ Reobserve
  \/ SecondProposal(Seconds2)
  \/ PeerLoad(PeerUrls)
  \/ PeerSave

SpecRace == InitRace /\ [][NextRace]_vars

\* both runs returned a record, for different domains, and neither had the other's
\* record in the mapping it loaded: both loaded before either saved
BothLoadedBeforeEitherSaved ==
  /\ pc = "done"
  /\ peer.pc = "done"
  /\ domain # peer.domain
  /\ existing[peer.domain] # peer.out
  /\ peer.existing[domain] # out

\* C11: two runs for different domains against one store are not coordinated: when both
\* load before either saves, both complete and the store misses the record of the run
\* that saved first; such an interleaving is reachable through the multi-step path.
C11_ConcurrentRunsLoseAnUpdate ==
  BothLoadedBeforeEitherSaved =>
    /\ out # NoRecord
    /\ peer.out # NoRecord
    /\ store.map[domain] # out \/ store.map[peer.domain] # peer.out

\* the second run saved b.org first, the first run then wrote its stale mapping over it
C11_Witness ==
  /\ BothLoadedBeforeEitherSaved
  /\ atStart = EmptyMap
  /\ out.variant = "multi_step_login"
  /\ domain = <<"a", "com">>
  /\ peer.domain = <<"b", "org">>
  /\ store.map[<<"a", "com">>] = out
  /\ store.map[<<"b", "org">>] = NoRecord
  /\ <<"b", "org">> \notin store.yaml

-----------------------------------------------------------------------------
(* The step executor: multi-step proposals against documents in which the field, *)
(* the scraped candidates and the controls resolve or not                         *)

UrlsE == {<<"a", "com">>}
DocsE == DocsOver({"#user", "#ext", "#pass", "#go", "#proceed"}, {})
InputsE == {<<>>, <<Cand(<<"#pass">>)>>, <<Cand(<<BadSyntax, "#user">>)>>}
ButtonsE == {<<>>, <<Cand(<<"#proceed">>)>>, <<Cand(<<>>), Cand(<<"", "#proceed">>)>>}
FieldValuesE ==
  ListValues({"#user"}) \cup {List(<<"#ext", "#user">>), List(<<BadSyntax, "#user">>)}
UsernameValuesE == {Absent, List(<<"#ext">>), List(<<"#user", "#ext">>)}
SubmitValuesE == {Absent, List(<<"#go">>), List(<<BadSyntax, "#go">>)}
ProposalsE ==
  {Proposal("multi_step_login", u, Absent, s, NoStep) :
     u \in UsernameValuesE, s \in SubmitValuesE}
  \cup
  {Proposal("multi_step_login", u, Absent, Absent, GivenStep("username", f, s)) :
     u \in UsernameValuesE, f \in FieldValuesE, s \in SubmitValuesE}
SecondsE == {Second(Absent, Absent), Second(List(<<"#pass">>), List(<<"text=NEXT">>))}

NextExec ==
  \/ StartRun(UrlsE, DocsE, InputsE, ButtonsE)
  \/ FirstProposal(ProposalsE)
  \/ Classify
  \/ Fill
  \/ Trigger({})
  \/ Settle
  \/ Reobserve
  \/ SecondProposal(SecondsE)

SpecExec == Init /\ [][NextExec]_vars

-----------------------------------------------------------------------------
(* Vocabulary of the step executor's properties *)

EventsOf(ops) == {i \in DOMAIN events : events[i].op \in ops}
SettleWaits ==
  {i \in DOMAIN events : events[i].op = "wait" /\ events[i].arg = "waitAfterClickMs"}

\* the classifier has sent the run down the multi-step path
MultiStepRun ==
  \/ pc \in {"fill", "trigger", "settle", "reobserve", "propose2"}
  \/ pc \in {"done", "thrown"} /\ SettleWaits # {}

\* the run is past the fill block, resp. past the transition block
FillDone == MultiStepRun /\ pc # "fill"
TriggerDone == FillDone /\ pc # "trigger"

\* what resolves in the live document, list by list
FieldMatch == FirstMatch(doc, AsReceived(step1Fields(firstResult)).items)
CandidateMatch == FirstMatch(doc, FallbackSelectors(inputs))
UsernameMatch == FirstMatch(doc, AsReceived(firstResult.username_patterns).items)
SubmitMatch == FirstMatch(doc, AsReceived(step1SubmitPatterns(firstResult)).items)
ButtonMatch == FirstMatch(doc, FallbackSelectors(buttons))

\* the control the transition block resolves
ControlMatch == IF SubmitMatch # Null THEN SubmitMatch ELSE ButtonMatch

NothingResolves ==
  /\ FieldMatch = Null
  /\ CandidateMatch = Null
  /\ UsernameMatch = Null
  /\ ControlMatch = Null

\* step_2 of the record for a second answer: its two lists, empty where absent or
\* where the call failed
Step2Of(ans) ==
  [field_type |-> "password",
   field_patterns |-> IF ans = ProposerFailed THEN List(<<>>)
                      ELSE AsReceived(ans.password_patterns),
   submit_patterns |-> IF ans = ProposerFailed THEN List(<<>>)
                       ELSE AsReceived(ans.submit_patterns)]

\* the record is in the file pair under the run's key
Persisted(rec) ==
  /\ store.kind = "json"
  /\ store.map[domain] = rec
  /\ domain \in store.yaml

\* C12: when neither a field nor a control resolves in a multi-step run, nothing is
\* filled, clicked or pressed, the run does not fail, and it ends, after the settle
\* wait, the second extraction and the second proposal, with a persisted
\* multi_step_login record whose step_2 comes from the second proposal.
C12_SkippedStepStillCompletes ==
  (MultiStepRun /\ NothingResolves) =>
    /\ EventsOf({"fill", "isDisabled", "click", "press"}) = {}
    /\ pc # "thrown"
    /\ pc = "done" =>
         /\ Cardinality(SettleWaits) = 1
         /\ EventsOf({"extract"}) # {} /\ EventsOf({"propose"}) # {}
         /\ out.variant = "multi_step_login"
         /\ out.step_2 = Step2Of(secondAnswer)
         /\ Persisted(out)

\* one of the three override rules applies to the proposal; a missing list counts as
\* an empty one and a bare string as the list of its characters
AnyRuleCase ==
  /\ Answered
  /\ \/ /\ AsReceived(proposal.username_patterns).items # <<>>
        /\ AsReceived(proposal.password_patterns).items = <<>>
     \/ /\ AsReceived(proposal.password_patterns).items # <<>>
        /\ ~MatchesVisible(doc, AsReceived(proposal.password_patterns).items[1])
     \/ RuleCCase

\* the step-1 data as classified: the proposal's own step_1, else the step synthesized
\* when a rule fired, else an empty step
ClassifiedStep1 ==
  IF proposal.step_1.present THEN GivenStepOf(proposal.step_1)
  ELSE IF AnyRuleCase
    THEN [field_type |-> "username",
          field_patterns |-> AsReceived(proposal.username_patterns),
          submit_patterns |-> AsReceived(proposal.submit_patterns)]
    ELSE [field_type |-> "username", field_patterns |-> List(<<>>),
          submit_patterns |-> List(<<>>)]

\* C13: a second proposer call that fails does not abort the run: the multi_step_login
\* record is persisted and returned with step_1 as classified and both lists of step_2
\* empty.
C13_SecondProposalFailureKeepsRun ==
  secondAnswer = ProposerFailed =>
    /\ pc = "done"
    /\ out.variant = "multi_step_login"
    /\ out.step_1 = ClassifiedStep1
    /\ out.step_2.field_patterns = List(<<>>)
    /\ out.step_2.submit_patterns = List(<<>>)
    /\ Persisted(out)

C13_Witness ==
  /\ secondAnswer = ProposerFailed
  /\ pc = "done"
  /\ EventsOf({"click"}) # {}
  /\ out.variant = "multi_step_login"
  /\ out.step_1.field_patterns = List(<<"#ext", "#user">>)
  /\ out.step_2.field_patterns = List(<<>>)
  /\ Persisted(out)

\* the three rules can be evaluated on the proposal: its submit value is missing or a
\* list of strings
RulesEvaluate ==
  \/ proposal.submit_patterns = Absent
  \/ /\ proposal.submit_patterns.kind = "list"
     /\ \A i \in DOMAIN proposal.submit_patterns.items :
          proposal.submit_patterns.items[i] # NotAString

\* the rules have been applied, none fired, and the declared type is not a known one
UnknownTypeCase ==
  /\ pc \notin {"idle", "propose1", "classify"}
  /\ Answered
  /\ RulesEvaluate
  /\ ~AnyRuleCase
  /\ proposal.type \notin {"simple_login", "multi_step_login", "incomplete"}

\* C14: a proposal whose type, after the override rules, is none of the three known
\* ones (or is missing) ends the run normally with the incomplete record, persisted
\* and returned, carrying the proposal's three lists as received, empty where absent.
C14_UnknownTypeIsIncomplete ==
  UnknownTypeCase =>
    /\ pc = "done"
    /\ NoExecutorEvent
    /\ out = [url |-> url, variant |-> "incomplete",
              username_patterns |-> AsReceived(proposal.username_patterns),
              password_patterns |-> AsReceived(proposal.password_patterns),
              submit_patterns |-> AsReceived(proposal.submit_patterns)]
    /\ Persisted(out)

C14_Witness ==
  /\ UnknownTypeCase
  /\ pc = "done"
  /\ proposal.type = "sso_login"
  /\ proposal.username_patterns = List(<<"#user">>)
  /\ proposal.password_patterns = List(<<"#pass">>)
  /\ proposal.submit_patterns = Absent
  /\ out.variant = "incomplete"
  /\ out.username_patterns = List(<<"#user">>)
  /\ out.submit_patterns = List(<<>>)

IsList(v) == v.kind = "list"

\* every pattern list of a record is a list
ListsAreLists(rec) ==
  IF rec.variant \in {"simple_login", "incomplete"}
    THEN /\ IsList(rec.username_patterns)
         /\ IsList(rec.password_patterns)
         /\ IsList(rec.submit_patterns)
  ELSE IF rec.variant = "multi_step_login"
    THEN /\ IsList(rec.step_1.field_patterns)
         /\ IsList(rec.step_1.submit_patterns)
         /\ IsList(rec.step_2.field_patterns)
         /\ IsList(rec.step_2.submit_patterns)
  ELSE TRUE

\* C15: whatever the proposer returns (fields absent, null or not a list), every
\* pattern list of every record in the store is present and is a list, possibly empty.
C15_RecordListsAreLists ==
  \A d \in Domains : ListsAreLists(loadExistingJson(store)[d])

\* the field that was filled with the placeholder credential, if any
FilledFields == {events[i].arg : i \in {j \in EventsOf({"fill"}) : events[j].res = "ok"}}

Pressed(sel) == \E i \in EventsOf({"press"}) : events[i].arg = sel

\* the resolved control reported itself disabled, resp. its click threw
ControlDisabled == \E i \in EventsOf({"isDisabled"}) : events[i].res = "true"
ClickThrew == \E i \in EventsOf({"click"}) : events[i].res = Threw

\* C16: once the transition block has run with a resolved control, a control that
\* reports itself disabled has not been clicked and Enter has been pressed on the
\* filled field; a click that threw is likewise followed by Enter on the filled field;
\* for every way the field was resolved and filled.
C16_EnterOnFilledField ==
  (TriggerDone /\ ControlMatch # Null) =>
    \A f \in FilledFields :
      /\ ControlDisabled => EventsOf({"click"}) = {} /\ Pressed(f)
      /\ ClickThrew => Pressed(f)

\* the selectors the placeholder credential has been sent to
FillTargets == {events[i].arg : i \in EventsOf({"fill"})}

\* the fill block has sent the placeholder to exactly the field sel, or to none
FilledExactly(sel) == FillTargets = IF sel = Null THEN {} ELSE {sel}

\* C17 as stated: the field that receives the placeholder is the first matching step-1
\* field pattern, else the first matching raw username pattern; none is filled only
\* when neither list has a match.
C17_FieldThenUsername ==
  FillDone => FilledExactly(IF FieldMatch # Null THEN FieldMatch ELSE UsernameMatch)

\* C17 amended: the field that receives the placeholder is the first matching step-1
\* field pattern, else the first matching fallback selector of the scraped input
\* candidates, else the first matching raw username pattern; none is filled only when
\* none of the three lists has a match.
C17_FieldThenCandidateThenUsername ==
  FillDone =>
    FilledExactly(IF FieldMatch # Null THEN FieldMatch
                  ELSE IF CandidateMatch # Null THEN CandidateMatch
                  ELSE UsernameMatch)

\* no step-1 pattern matches, a scraped candidate and a username pattern both do
C17_Witness ==
  /\ FillDone
  /\ step1Fields(firstResult) = List(<<BadSyntax, "#user">>)
  /\ FieldMatch = Null
  /\ CandidateMatch = "#pass"
  /\ UsernameMatch = "#ext"
  /\ FillTargets = {"#pass"}

\* the place of an event in the run: first pass 0, fill 1, transition 2, settle wait 3,
\* second extraction 4, second proposer call 5, store write 6
Phase(e) ==
  CASE e.op \in {"extract", "propose"} /\ e.arg = "1" -> 0
    [] e.op = "fill" -> 1
    [] e.op = "wait" /\ e.arg # "waitAfterClickMs" -> 1
    [] e.op \in {"isDisabled", "click", "press"} -> 2
    [] e.op = "wait" /\ e.arg = "waitAfterClickMs" -> 3
    [] e.op = "extract" /\ e.arg = "2" -> 4
    [] e.op = "propose" /\ e.arg = "2" -> 5
    [] e.op = "save" -> 6

InPhase(n) == {i \in DOMAIN events : Phase(events[i]) = n}

\* the clicks and Enter presses that went through
Triggers == {i \in EventsOf({"click", "press"}) : events[i].res = "ok"}

FillThrew == \E i \in EventsOf({"fill"}) : events[i].res = Threw

OnControl(ops) == {i \in EventsOf(ops) : events[i].arg = ControlMatch}

\* C19: a fill that throws does not abort the run: the transition block runs next and
\* does what it does after a fill that succeeded. The control is the first matching
\* step-1 submit pattern, else the first matching selector of the scraped buttons; if
\* there is one it is asked whether it is disabled, clicked unless disabled, and Enter
\* is pressed on the resolved field when it is disabled or the click threw.
C19_FillFailureStillTriggers ==
  FillThrew =>
    /\ pc = "thrown" => SettleWaits # {}
    /\ ~TriggerDone => pc = "trigger"
    /\ (TriggerDone /\ ControlMatch = Null) => InPhase(2) = {}
    /\ (TriggerDone /\ ControlMatch # Null) =>
         /\ OnControl({"isDisabled"}) # {}
         /\ EventsOf({"isDisabled", "click"}) = OnControl({"isDisabled", "click"})
         /\ IF ControlDisabled THEN EventsOf({"click"}) = {}
            ELSE Cardinality(OnControl({"click"})) = 1
         /\ ((ControlDisabled \/ ClickThrew) /\ fillSel # Null) => Pressed(fillSel)
         /\ EventsOf({"press"}) # {} => ControlDisabled \/ ClickThrew

\* the fill on #user threw, the scraped button #proceed was still resolved and clicked
C19_Witness ==
  /\ FillThrew
  /\ pc = "done"
  /\ FillTargets = {"#user"}
  /\ SubmitMatch = Null
  /\ ControlMatch = "#proceed"
  /\ \E i \in OnControl({"click"}) : events[i].res = "ok"

\* C20: the second answer is not corrected: every multi-step record built from a second
\* answer has step_2.field_patterns and step_2.submit_patterns equal to the answer's
\* password_patterns and submit_patterns as received, empty where absent, whether or
\* not the password pattern is visible and whatever words the submit patterns contain;
\* its step_1 is the step-1 data as classified.
C20_Step2AsReceived ==
  (pc = "done" /\ out.variant = "multi_step_login" /\ secondAnswer # ProposerFailed) =>
    /\ out.steps = 2
    /\ out.step_1 = ClassifiedStep1
    /\ out.step_2 = [field_type |-> "password",
                     field_patterns |-> AsReceived(secondAnswer.password_patterns),
                     submit_patterns |-> AsReceived(secondAnswer.submit_patterns)]

\* the second answer names a password field the document does not show and a submit
\* pattern with a transition word; both are recorded untouched
C20_Witness ==
  /\ pc = "done"
  /\ out.variant = "multi_step_login"
  /\ secondAnswer = Second(List(<<"#pass">>), List(<<"text=NEXT">>))
  /\ ~MatchesVisible(doc, "#pass")
  /\ Triggers # {}
  /\ out.step_2.field_patterns = List(<<"#pass">>)
  /\ out.step_2.submit_patterns = List(<<"text=NEXT">>)

\* C21: every record in the store has a url of the domain it is stored under: the
\* url's hostname without a leading www. is the key, also for a multi-step run whose
\* transition has navigated the document to another host before the record was built.
C21_RecordUrlBelongsToKey ==
  \A d \in Domains :
    LET rec == loadExistingJson(store)[d] IN
    rec # NoRecord => domainOf(rec.url) = d

====
